---- MODULE Spec2Model ----
(***************************************************************************)
(* ILQLModel of trlx/model/accelerate_ilql_model.py: construction,         *)
(* get_components() and the training loop learn(), one copy of the loop    *)
(* per process of the distributed run.  The processes meet only in         *)
(* accelerator.gather, a collective every rank has to enter.               *)
(***************************************************************************)
EXTENDS Integers, Sequences, FiniteSets, TLC

\* ------------------------------------------------------------------ bounds
MaxEpochs == 2
MaxBatches == 2
MaxEvalInterval == 2
MaxSyncInterval == 2
MaxEvalBatches == 2
DistMaxEpochs == 1
DistMaxBatches == 2
DistMaxEvalBatches == 1

\* line 20: WORLD_SIZE of the distributed run, the main process and one other rank
WORLD_SIZE == 2

\* ------------------------------------------------------------------ state
VARIABLES
    cfg,          \* config.train.*, config.method.*, constructor arguments, WORLD_SIZE
    attrs,        \* attributes __init__ has set on self
    components,   \* what the last get_components() call returned
    pc,           \* per process: the statement of learn() it is about to execute
    epoch,        \* per process: the loop variable of line 81
    batch,        \* per process: how many batches of this epoch were fetched
    opt_steps,    \* per process: the local opt_steps of learn()
    mode,         \* per process: self.model.training ("train" / "eval")
    all_samples,  \* per process: the list built at lines 88-98
    samples,      \* per process: what accelerator.gather returned
    logs,         \* per process: the dict logs
    stats,        \* per process: the stats of the last model.loss call
    logged,       \* per process: the dict last handed to accelerator.log
    sample_ctx,   \* per process: mode / grad flag / parameters seen by the last model.sample
    cnt,          \* per process: how often each call was made
    calls,        \* per process: the calls of the current iteration, in order
    gbuf,         \* per process: the tensors it has contributed to gather, one per call
    gather_at     \* per process: opt_steps at each of its gather calls

vars == <<cfg, attrs, components, pc, epoch, batch, opt_steps, mode, all_samples,
          samples, logs, stats, logged, sample_ctx, cnt, calls, gbuf, gather_at>>

\* ------------------------------------------------------------------ helpers
Procs == 0 .. (cfg.world_size - 1)

\* accelerator.is_main_process: rank 0
IsMain(p) == p = 0

EmptyDict == [k \in {} |-> <<>>]

\* dict.update
DictUpdate(d, e) ==
    [k \in (DOMAIN d) \cup (DOMAIN e) |-> IF k \in DOMAIN e THEN e[k] ELSE d[k]]

RECURSIVE SeqSum(_)
SeqSum(s) == IF s = <<>> THEN 0 ELSE Head(s) + SeqSum(Tail(s))

Has(s, x) == \E i \in 1 .. Len(s) : s[i] = x

Count(s, x) == Cardinality({i \in 1 .. Len(s) : s[i] = x})

\* the model parameters are identified by the number of optimizer steps applied
Params(p) == cnt[p].opt_step

\* ------------------------------------------------------------------ __init__
\* self.opt and self.scheduler exist only for a train_mode object
ConstructAttrs(train_mode) ==
    IF train_mode THEN {"model", "opt", "scheduler"} ELSE {"model"}

ZeroCnt ==
    [eval |-> 0, sample |-> 0, gather |-> 0, reward_fn |-> 0, stats_fn |-> 0,
     decode |-> 0, train |-> 0, loss |-> 0, log |-> 0, backward |-> 0,
     opt_step |-> 0, zero_grad |-> 0, sched_step |-> 0, sync |-> 0]

NoSample == [mode |-> "none", grad |-> TRUE, params |-> 0]

Configs(ws, maxEpochs, maxBatches, evalIntervals, syncIntervals, maxEval, modes) ==
    [world_size : {ws},
     train_mode : BOOLEAN,
     epochs : 0 .. maxEpochs,
     n_train : 0 .. maxBatches,
     n_eval : 1 .. maxEval,
     eval_interval : evalIntervals,
     steps_for_target_q_sync : syncIntervals,
     stats_fn : BOOLEAN,
     tokenizer : BOOLEAN,
     init_mode : modes]

InitWith(C) ==
    /\ cfg \in C
    /\ attrs = ConstructAttrs(cfg.train_mode)
    /\ components = [called |-> FALSE, value |-> EmptyDict]
    /\ pc = [p \in Procs |-> "idle"]
    /\ epoch = [p \in Procs |-> 0]
    /\ batch = [p \in Procs |-> 0]
    /\ opt_steps = [p \in Procs |-> 0]
    /\ mode = [p \in Procs |-> cfg.init_mode]
    /\ all_samples = [p \in Procs |-> <<>>]
    /\ samples = [p \in Procs |-> <<>>]
    /\ logs = [p \in Procs |-> EmptyDict]
    /\ stats = [p \in Procs |-> EmptyDict]
    /\ logged = [p \in Procs |-> EmptyDict]
    /\ sample_ctx = [p \in Procs |-> NoSample]
    /\ cnt = [p \in Procs |-> ZeroCnt]
    /\ calls = [p \in Procs |-> <<>>]
    /\ gbuf = [p \in Procs |-> <<>>]
    /\ gather_at = [p \in Procs |-> <<>>]

\* WORLD_SIZE defaults to 1: a single process
Init ==
    InitWith(Configs(1, MaxEpochs, MaxBatches, 1 .. MaxEvalInterval,
                     1 .. MaxSyncInterval, MaxEvalBatches, {"train", "eval"}))

\* a distributed run of WORLD_SIZE ranks; the inputs the collective does not
\* depend on (the sync interval, the initial mode) are fixed
DistInit ==
    InitWith(Configs(WORLD_SIZE, DistMaxEpochs, DistMaxBatches, 1 .. MaxEvalInterval,
                     {1}, DistMaxEvalBatches, {"train"}))

\* ------------------------------------------------------------------ get_components
\* the dict get_components builds: key |-> the attribute of self it reads
ComponentsSwapped(train_mode) ==
    IF train_mode
    THEN [k \in {"model"} |-> k]
    ELSE [k \in {"model", "opt", "scheduler"} |-> k]

Components(train_mode) ==
    IF train_mode
    THEN [k \in {"model", "opt", "scheduler"} |-> k]
    ELSE [k \in {"model"} |-> k]

GetComponents ==
    /\ \A p \in Procs : pc[p] \in {"idle", "done"}
    /\ \A k \in DOMAIN Components(cfg.train_mode) : Components(cfg.train_mode)[k] \in attrs
    /\ components' = [called |-> TRUE, value |-> Components(cfg.train_mode)]
    /\ UNCHANGED <<cfg, attrs, pc, epoch, batch, opt_steps, mode, all_samples, samples,
                   logs, stats, logged, sample_ctx, cnt, calls, gbuf, gather_at>>

\* ------------------------------------------------------------------ learn
IsEvalStepAfter(steps) == (steps + 1) % cfg.eval_interval = 0

IsEvalStepSkipFirst(steps) == steps > 0 /\ steps % cfg.eval_interval = 0

\* line 85: opt_steps % eval_interval == 0
IsEvalStep(steps) == steps % cfg.eval_interval = 0

IsLogStepAlways(steps) == TRUE

\* line 126: opt_steps % eval_interval == 0
IsLogStep(steps) == steps % cfg.eval_interval = 0

IsSyncStepBefore(steps) == (steps - 1) % cfg.steps_for_target_q_sync = 0

\* line 136: opt_steps % steps_for_target_q_sync == 0
IsSyncStep(steps) == steps % cfg.steps_for_target_q_sync = 0

TrainOrderSchedFirst == <<"backward", "sched_step", "opt_step", "zero_grad", "inc">>

\* lines 130-134, in statement order
TrainOrder == <<"backward", "opt_step", "zero_grad", "sched_step", "inc">>

\* the statement that follows statement s of lines 130-134; steps is opt_steps after s
After(s, steps) ==
    LET i == CHOOSE j \in 1 .. Len(TrainOrder) : TrainOrder[j] = s
    IN  IF i < Len(TrainOrder) THEN TrainOrder[i + 1]
        ELSE IF IsSyncStep(steps) THEN "sync" ELSE "batch"

\* line 80
InitialOptSteps == 0

OptStepsReset(steps) == 0

\* opt_steps when an epoch starts (line 81 leaves it alone)
OptStepsAtEpoch(steps) == steps

\* line 90: the sampling runs inside torch.no_grad()
GradInNoGrad == FALSE

ModeAfterEvalStays == "eval"

\* line 122
ModeAfterEval == "train"

EntersGatherMainOnly(p) == IsMain(p)

\* line 100: every rank calls accelerator.gather
EntersGather(p) == TRUE

\* model.sample(prompts): sample i of rank p under parameters v
SampleOf(p, i, v) == <<p, i, v>>

\* reward_fn: one scalar per gathered sample
RewardFn(smp) == [i \in 1 .. Len(smp) |-> 1 + smp[i][2] + 2 * smp[i][3]]

\* rewards.mean(), as the pair <<sum, count>>
Mean(rs) == <<SeqSum(rs), Len(rs)>>

\* stats_fn(samples): a dict whose keys depend on the samples
StatsFn(smp) ==
    IF smp[1][3] = 0 THEN [k \in {"stat_first"} |-> <<smp[1][3]>>]
    ELSE [k \in {"stat_later"} |-> <<smp[1][3]>>]

\* model.loss(batch): the stats of this batch under the current parameters
LossStats(e, b, v) == [k \in {"loss"} |-> <<e, b, v>>]

\* the reward is written only when the dict has none yet
MainEvalLogsKeepReward(lg, smp) ==
    LET withStats == IF cfg.stats_fn THEN DictUpdate(lg, StatsFn(smp)) ELSE lg
        withTable == IF cfg.tokenizer
                     THEN DictUpdate(withStats, [k \in {"samples"} |-> RewardFn(smp)])
                     ELSE withStats
    IN  IF "reward" \in DOMAIN lg THEN withTable
        ELSE DictUpdate(withTable, [k \in {"reward"} |-> Mean(RewardFn(smp))])

\* lines 103-120: the logs of the main process after an evaluation
MainEvalLogs(lg, smp) ==
    LET withStats == IF cfg.stats_fn THEN DictUpdate(lg, StatsFn(smp)) ELSE lg
        withTable == IF cfg.tokenizer
                     THEN DictUpdate(withStats, [k \in {"samples"} |-> RewardFn(smp)])
                     ELSE withStats
    IN  DictUpdate(withTable, [k \in {"reward"} |-> Mean(RewardFn(smp))])

RECURSIVE Concat(_, _)
\* the tensors of round r of ranks 0 .. n, stacked in rank order
Concat(r, n) == IF n < 0 THEN <<>> ELSE Concat(r, n - 1) \o gbuf[n][r]

Bump(p, f) == [cnt EXCEPT ![p][f] = @ + 1]
Call(p, name) == [calls EXCEPT ![p] = Append(@, name)]

\* lines 69-80
Learn(p) ==
    /\ pc[p] = "idle"
    /\ "opt" \in attrs
    /\ opt_steps' = [opt_steps EXCEPT ![p] = InitialOptSteps]
    /\ epoch' = [epoch EXCEPT ![p] = 0]
    /\ pc' = [pc EXCEPT ![p] = "epoch"]
    /\ UNCHANGED <<cfg, attrs, components, batch, mode, all_samples, samples, logs,
                   stats, logged, sample_ctx, cnt, calls, gbuf, gather_at>>

\* lines 81-83
EpochHead(p) ==
    /\ pc[p] = "epoch"
    /\ IF epoch[p] < cfg.epochs
       THEN /\ logs' = [logs EXCEPT ![p] = EmptyDict]
            /\ batch' = [batch EXCEPT ![p] = 0]
            /\ opt_steps' = [opt_steps EXCEPT ![p] = OptStepsAtEpoch(@)]
            /\ pc' = [pc EXCEPT ![p] = "batch"]
       ELSE /\ pc' = [pc EXCEPT ![p] = "done"]
            /\ UNCHANGED <<logs, batch, opt_steps>>
    /\ UNCHANGED <<cfg, attrs, components, epoch, mode, all_samples, samples, stats,
                   logged, sample_ctx, cnt, calls, gbuf, gather_at>>

\* lines 84-85
BatchHead(p) ==
    /\ pc[p] = "batch"
    /\ IF batch[p] < cfg.n_train
       THEN /\ batch' = [batch EXCEPT ![p] = @ + 1]
            /\ calls' = [calls EXCEPT ![p] = <<>>]
            /\ pc' = [pc EXCEPT ![p] = IF IsEvalStep(opt_steps[p]) THEN "model_eval" ELSE "loss"]
            /\ UNCHANGED epoch
       ELSE /\ epoch' = [epoch EXCEPT ![p] = @ + 1]
            /\ pc' = [pc EXCEPT ![p] = "epoch"]
            /\ UNCHANGED <<batch, calls>>
    /\ UNCHANGED <<cfg, attrs, components, opt_steps, mode, all_samples, samples, logs,
                   stats, logged, sample_ctx, cnt, gbuf, gather_at>>

\* lines 86-88
ModelEval(p) ==
    /\ pc[p] = "model_eval"
    /\ mode' = [mode EXCEPT ![p] = "eval"]
    /\ all_samples' = [all_samples EXCEPT ![p] = <<>>]
    /\ cnt' = Bump(p, "eval")
    /\ calls' = Call(p, "model_eval")
    /\ pc' = [pc EXCEPT ![p] = "sample"]
    /\ UNCHANGED <<cfg, attrs, components, epoch, batch, opt_steps, samples, logs, stats,
                   logged, sample_ctx, gbuf, gather_at>>

\* lines 89-98, one prompt batch
Sample(p) ==
    /\ pc[p] = "sample"
    /\ sample_ctx' = [sample_ctx EXCEPT ![p] =
                        [mode |-> mode[p], grad |-> GradInNoGrad, params |-> Params(p)]]
    /\ all_samples' = [all_samples EXCEPT ![p] =
                        Append(@, SampleOf(p, Len(@) + 1, Params(p)))]
    /\ cnt' = Bump(p, "sample")
    /\ calls' = Call(p, "sample")
    /\ pc' = [pc EXCEPT ![p] =
                IF Len(all_samples[p]) + 1 < cfg.n_eval THEN "sample"
                ELSE IF EntersGather(p) THEN "gather" ELSE "gathered"]
    /\ UNCHANGED <<cfg, attrs, components, epoch, batch, opt_steps, mode, samples, logs,
                   stats, logged, gbuf, gather_at>>

\* line 100: the rank hands its stacked samples to the collective
GatherEnter(p) ==
    /\ pc[p] = "gather"
    /\ gbuf' = [gbuf EXCEPT ![p] = Append(@, all_samples[p])]
    /\ gather_at' = [gather_at EXCEPT ![p] = Append(@, opt_steps[p])]
    /\ cnt' = Bump(p, "gather")
    /\ calls' = Call(p, "gather")
    /\ pc' = [pc EXCEPT ![p] = "gather_wait"]
    /\ UNCHANGED <<cfg, attrs, components, epoch, batch, opt_steps, mode, all_samples,
                   samples, logs, stats, logged, sample_ctx>>

\* line 100: gather returns once every rank has contributed to this round
GatherReturn(p) ==
    /\ pc[p] = "gather_wait"
    /\ \A q \in Procs : Len(gbuf[q]) >= Len(gbuf[p])
    /\ samples' = [samples EXCEPT ![p] = Concat(Len(gbuf[p]), cfg.world_size - 1)]
    /\ pc' = [pc EXCEPT ![p] = "gathered"]
    /\ UNCHANGED <<cfg, attrs, components, epoch, batch, opt_steps, mode, all_samples,
                   logs, stats, logged, sample_ctx, cnt, calls, gbuf, gather_at>>

\* lines 102-120
MainEval(p) ==
    /\ pc[p] = "gathered"
    /\ IF IsMain(p)
       THEN /\ logs' = [logs EXCEPT ![p] = MainEvalLogs(@, samples[p])]
            /\ cnt' = [cnt EXCEPT ![p] =
                        [@ EXCEPT !.reward_fn = @ + 1,
                                  !.stats_fn = IF cfg.stats_fn THEN @ + 1 ELSE @,
                                  !.decode = IF cfg.tokenizer THEN @ + 1 ELSE @]]
            /\ calls' = [calls EXCEPT ![p] =
                        @ \o <<"reward_fn">>
                          \o (IF cfg.stats_fn THEN <<"stats_fn">> ELSE <<>>)
                          \o (IF cfg.tokenizer THEN <<"decode">> ELSE <<>>)]
       ELSE UNCHANGED <<logs, cnt, calls>>
    /\ pc' = [pc EXCEPT ![p] = "model_train"]
    /\ UNCHANGED <<cfg, attrs, components, epoch, batch, opt_steps, mode, all_samples,
                   samples, stats, logged, sample_ctx, gbuf, gather_at>>

\* line 122
ModelTrain(p) ==
    /\ pc[p] = "model_train"
    /\ mode' = [mode EXCEPT ![p] = ModeAfterEval]
    /\ cnt' = Bump(p, "train")
    /\ calls' = Call(p, "model_train")
    /\ pc' = [pc EXCEPT ![p] = "loss"]
    /\ UNCHANGED <<cfg, attrs, components, epoch, batch, opt_steps, all_samples, samples,
                   logs, stats, logged, sample_ctx, gbuf, gather_at>>

\* lines 124 and 126
Loss(p) ==
    /\ pc[p] = "loss"
    /\ stats' = [stats EXCEPT ![p] = LossStats(epoch[p], batch[p], Params(p))]
    /\ cnt' = Bump(p, "loss")
    /\ calls' = Call(p, "loss")
    /\ pc' = [pc EXCEPT ![p] = IF IsLogStep(opt_steps[p]) THEN "log" ELSE TrainOrder[1]]
    /\ UNCHANGED <<cfg, attrs, components, epoch, batch, opt_steps, mode, all_samples,
                   samples, logs, logged, sample_ctx, gbuf, gather_at>>

\* lines 127-128
Log(p) ==
    /\ pc[p] = "log"
    /\ logs' = [logs EXCEPT ![p] = DictUpdate(@, stats[p])]
    /\ logged' = [logged EXCEPT ![p] = DictUpdate(logs[p], stats[p])]
    /\ cnt' = Bump(p, "log")
    /\ calls' = Call(p, "log")
    /\ pc' = [pc EXCEPT ![p] = TrainOrder[1]]
    /\ UNCHANGED <<cfg, attrs, components, epoch, batch, opt_steps, mode, all_samples,
                   samples, stats, sample_ctx, gbuf, gather_at>>

\* one of accelerator.backward, opt.step, opt.zero_grad, scheduler.step (lines 130-133)
TrainCall(p, s) ==
    /\ pc[p] = s
    /\ cnt' = Bump(p, s)
    /\ calls' = Call(p, s)
    /\ pc' = [pc EXCEPT ![p] = After(s, opt_steps[p])]
    /\ UNCHANGED <<cfg, attrs, components, epoch, batch, opt_steps, mode, all_samples,
                   samples, logs, stats, logged, sample_ctx, gbuf, gather_at>>

Backward(p) == TrainCall(p, "backward")
OptStep(p) == TrainCall(p, "opt_step")
ZeroGrad(p) == TrainCall(p, "zero_grad")
SchedStep(p) == TrainCall(p, "sched_step")

\* lines 134 and 136
Inc(p) ==
    /\ pc[p] = "inc"
    /\ opt_steps' = [opt_steps EXCEPT ![p] = @ + 1]
    /\ calls' = Call(p, "inc")
    /\ pc' = [pc EXCEPT ![p] = After("inc", opt_steps[p] + 1)]
    /\ UNCHANGED <<cfg, attrs, components, epoch, batch, mode, all_samples, samples, logs,
                   stats, logged, sample_ctx, cnt, gbuf, gather_at>>

\* line 137
Sync(p) ==
    /\ pc[p] = "sync"
    /\ cnt' = Bump(p, "sync")
    /\ calls' = Call(p, "sync")
    /\ pc' = [pc EXCEPT ![p] = "batch"]
    /\ UNCHANGED <<cfg, attrs, components, epoch, batch, opt_steps, mode, all_samples,
                   samples, logs, stats, logged, sample_ctx, gbuf, gather_at>>

Proc(p) ==
    \/ Learn(p) \/ EpochHead(p) \/ BatchHead(p)
    \/ ModelEval(p) \/ Sample(p) \/ GatherEnter(p) \/ GatherReturn(p) \/ MainEval(p)
    \/ ModelTrain(p) \/ Loss(p) \/ Log(p)
    \/ Backward(p) \/ OptStep(p) \/ ZeroGrad(p) \/ SchedStep(p) \/ Inc(p) \/ Sync(p)

Next == GetComponents \/ \E p \in Procs : Proc(p)

Spec == Init /\ [][Next]_vars

\* each process keeps executing its statements
Fairness == \A p \in 0 .. (WORLD_SIZE - 1) : WF_vars(p \in Procs /\ Proc(p))

LiveSpec == Init /\ [][Next]_vars /\ Fairness

DistSpec == DistInit /\ [][Next]_vars /\ Fairness

\* ------------------------------------------------------------------ properties
\* the number of optimization steps of a whole run
TotalSteps == cfg.epochs * cfg.n_train

\* between two iterations, or outside the loop
Boundary(p) == pc[p] \in {"idle", "epoch", "batch", "done"}

\* an iteration has just ended: calls[p] is its complete trace
IterDone(p) == pc[p] = "batch" /\ calls[p] # <<>>

EvalCalls == {"model_eval", "sample", "gather", "reward_fn", "stats_fn", "decode", "model_train"}

MainOnlyCalls == {"reward_fn", "stats_fn", "decode"}

\* this iteration began with model.eval(), a sample of every eval batch, and the gather
EvalPassDone(p) ==
    LET n == cfg.n_eval + 2
    IN  /\ Len(calls[p]) >= n
        /\ SubSeq(calls[p], 1, n) = <<"model_eval">> \o [i \in 1 .. cfg.n_eval |-> "sample"] \o <<"gather">>

NoEvalCall(p) == \A i \in 1 .. Len(calls[p]) : calls[p][i] \notin EvalCalls

IsTrainOp(x) == x \in {"loss", "backward", "opt_step", "zero_grad", "sched_step", "inc"}

\* C1: an evaluation pass (a sample of every eval batch, then the gather) runs in an
\* iteration exactly when opt_steps is a multiple of eval_interval, it is over
\* before the iteration's model.loss call, and the first iteration has one.
C1_EvalSchedule ==
    \A p \in Procs :
        /\ pc[p] \in {"loss", "log"} =>
              /\ (opt_steps[p] % cfg.eval_interval = 0) => EvalPassDone(p)
              /\ (opt_steps[p] % cfg.eval_interval # 0) => NoEvalCall(p)
        /\ \A i, j \in 1 .. Len(calls[p]) :
              (calls[p][i] \in EvalCalls /\ calls[p][j] = "loss") => i < j
        /\ IterDone(p) =>
              /\ EvalPassDone(p) <=> ((opt_steps[p] - 1) % cfg.eval_interval = 0)
              /\ EvalPassDone(p) \/ NoEvalCall(p)
              /\ Count(calls[p], "gather") <= 1
        /\ (pc[p] = "loss" /\ opt_steps[p] = 0) => EvalPassDone(p)

C1_Witness ==
    \E p \in Procs :
        /\ pc[p] = "loss" /\ opt_steps[p] > 0 /\ cfg.eval_interval > 1
        /\ EvalPassDone(p)

\* C2: sync_target_q_heads runs right after the increment exactly when the new
\* opt_steps is a multiple of steps_for_target_q_sync, so between iterations the
\* number of syncs is opt_steps div K, whatever eval_interval and the epoch are.
C2_SyncSchedule ==
    \A p \in Procs :
        /\ Boundary(p) => cnt[p].sync = opt_steps[p] \div cfg.steps_for_target_q_sync
        /\ cnt[p].sync > 0 => cnt[p].opt_step > 0
        /\ \A i \in 1 .. Len(calls[p]) :
              calls[p][i] = "sync" => (i > 1 /\ calls[p][i - 1] = "inc")
        /\ IterDone(p) =>
              (Has(calls[p], "sync") <=> (opt_steps[p] % cfg.steps_for_target_q_sync = 0))
        /\ pc[p] = "sync" => opt_steps[p] = cnt[p].opt_step

C2_Witness ==
    \E p \in Procs :
        /\ cfg.steps_for_target_q_sync = 2 /\ cfg.n_train = 1 /\ cfg.eval_interval = 1
        /\ epoch[p] = 1 /\ pc[p] = "batch" /\ Has(calls[p], "sync")

C3_Safety ==
    /\ \A p \in Procs :
        /\ Count(calls[p], "gather") <= 1
        /\ pc[p] \notin {"sample", "gather"} => cnt[p].gather = cnt[p].eval
        /\ pc[p] \in {"sample", "gather"} => cnt[p].gather + 1 = cnt[p].eval
        /\ ~IsMain(p) => (cnt[p].reward_fn = 0 /\ cnt[p].stats_fn = 0 /\ cnt[p].decode = 0)
        /\ \A i \in 1 .. Len(calls[p]) :
              calls[p][i] \in MainOnlyCalls =>
                  \E j \in 1 .. (i - 1) : calls[p][j] = "gather"
        /\ gather_at[p] = [r \in 1 .. cnt[p].gather |-> cfg.eval_interval * (r - 1)]
    /\ \A p, q \in Procs :
        /\ cnt[p].gather <= cnt[q].gather + 1
        /\ (pc[p] = "done" /\ pc[q] = "done") => cnt[p].gather = cnt[q].gather

\* C3: every rank enters accelerator.gather once per evaluation pass; reward_fn,
\* stats_fn and the decoding run on the main process only, after the gather; the
\* ranks gather equally often, at the same opt_steps, and none waits for ever.
C3_Gather ==
    /\ []C3_Safety
    /\ \A p \in 0 .. (WORLD_SIZE - 1) : (pc[p] = "gather_wait") ~> (pc[p] # "gather_wait")

C3_Witness ==
    /\ pc[1] = "gather_wait" /\ cnt[1].gather = 2
    /\ cnt[0].gather = 1 /\ cnt[0].reward_fn = 1

\* C4: get_components returns model, opt and scheduler for a train_mode object and
\* model alone otherwise; opt and scheduler exist only in train mode; the call
\* changes nothing.
C4_Components ==
    /\ [](/\ cfg.train_mode => {"opt", "scheduler"} \subseteq attrs
          /\ ~cfg.train_mode => (attrs \cap {"opt", "scheduler"} = {})
          /\ components.called =>
                DOMAIN components.value =
                    (IF cfg.train_mode THEN {"model", "opt", "scheduler"} ELSE {"model"}))
    /\ [][components' # components =>
            UNCHANGED <<cfg, attrs, pc, epoch, batch, opt_steps, mode, all_samples, samples,
                        logs, stats, logged, sample_ctx, cnt, calls, gbuf, gather_at>>]_vars

C4_Witness == components.called /\ ~cfg.train_mode

\* C5: an iteration runs loss, backward, optimizer step, zero_grad, scheduler step,
\* increment in this order; the scheduler never gets ahead of the optimizer; between
\* iterations all four counts equal opt_steps.
C5_TrainOrder ==
    \A p \in Procs :
        LET t == SelectSeq(calls[p], IsTrainOp)
            order == <<"loss", "backward", "opt_step", "zero_grad", "sched_step", "inc">>
        IN  /\ Len(t) <= Len(order) /\ t = SubSeq(order, 1, Len(t))
            /\ IterDone(p) => t = order
            /\ cnt[p].sched_step <= cnt[p].opt_step
            /\ cnt[p].opt_step <= cnt[p].sched_step + 1
            /\ Boundary(p) =>
                  /\ cnt[p].backward = opt_steps[p]
                  /\ cnt[p].opt_step = opt_steps[p]
                  /\ cnt[p].zero_grad = opt_steps[p]
                  /\ cnt[p].sched_step = opt_steps[p]

C5_Witness == \E p \in Procs : IterDone(p) /\ opt_steps[p] >= 2 /\ ~Has(calls[p], "log")

\* C6: accelerator.log is called in an iteration exactly when the iteration had an
\* evaluation pass; it comes right after the loss and before backward, and the
\* dict holds the loss stats of this iteration's batch.
C6_Log ==
    \A p \in Procs :
        /\ (pc[p] = "backward" \/ IterDone(p)) =>
              /\ Has(calls[p], "log") <=> EvalPassDone(p)
              /\ Count(calls[p], "log") <= 1
        /\ \A i \in 1 .. Len(calls[p]) :
              calls[p][i] = "log" =>
                  /\ i > 1 /\ calls[p][i - 1] = "loss"
                  /\ \A j \in 1 .. Len(calls[p]) : calls[p][j] = "backward" => i < j
        /\ (pc[p] = "backward" /\ Has(calls[p], "log")) =>
              /\ "loss" \in DOMAIN logged[p]
              /\ logged[p]["loss"] = <<epoch[p], batch[p], opt_steps[p]>>

C6_Witness ==
    \E p \in Procs : pc[p] = "backward" /\ Has(calls[p], "log") /\ opt_steps[p] > 0 /\ batch[p] > 1

\* C7: a run of N steps has ceil(N / E) evaluation passes, the last one on the
\* parameters after E * floor((N - 1) / E) steps; the parameters after the last
\* step are neither sampled nor logged.
C7_EvalCount ==
    \A p \in Procs :
        LET N == TotalSteps
            E == cfg.eval_interval
        IN  /\ pc[p] = "done" =>
                  /\ cnt[p].opt_step = N
                  /\ cnt[p].eval = (N + E - 1) \div E
                  /\ N >= 1 => sample_ctx[p].params = E * ((N - 1) \div E)
            /\ cnt[p].sample > 0 => sample_ctx[p].params < N
            /\ cnt[p].log > 0 => logged[p]["loss"][3] < N
            /\ pc[p] \in {"model_eval", "sample", "gather", "gather_wait", "gathered", "model_train"}
                  => cnt[p].opt_step < N

C7_Witness ==
    \E p \in Procs : pc[p] = "done" /\ cfg.eval_interval > 1 /\ cnt[p].eval >= 2

\* C8: model.loss and the optimizer step run in train mode, model.sample in eval
\* mode without gradients, whatever the mode was when learn() was called; the
\* first iteration has an evaluation pass.
C8_Modes ==
    \A p \in Procs :
        /\ pc[p] \in {"loss", "backward", "opt_step"} => mode[p] = "train"
        /\ pc[p] = "sample" => mode[p] = "eval"
        /\ cnt[p].sample > 0 => (sample_ctx[p].mode = "eval" /\ sample_ctx[p].grad = FALSE)
        /\ (pc[p] = "loss" \/ cnt[p].loss > 0) => (cnt[p].eval >= 1 /\ cnt[p].train >= 1)
        /\ (pc[p] = "loss" /\ Has(calls[p], "sample")) =>
              (calls[p][1] = "model_eval" /\ calls[p][Len(calls[p])] = "model_train")

C8_Witness ==
    \E p \in Procs : cfg.init_mode = "eval" /\ pc[p] = "opt_step" /\ opt_steps[p] = 0

ExpectedMean(v) ==
    <<cfg.world_size * (cfg.n_eval * (1 + 2 * v) + (cfg.n_eval * (cfg.n_eval + 1)) \div 2),
      cfg.world_size * cfg.n_eval>>

\* C10: on the main process every logged dict has the mean reward of the samples
\* gathered in the same iteration; logs is emptied at the start of an epoch only,
\* so the keys of earlier evaluations of the epoch stay in it.
C10_Reward ==
    /\ []((pc[0] = "backward" /\ Has(calls[0], "log")) =>
            /\ "reward" \in DOMAIN logged[0]
            /\ logged[0]["reward"] = ExpectedMean(opt_steps[0]))
    /\ [][\A p \in Procs :
            /\ logs'[p] # logs[p] =>
                  IF pc[p] = "epoch" THEN DOMAIN logs'[p] = {}
                  ELSE DOMAIN logs[p] \subseteq DOMAIN logs'[p]
            /\ logged'[p] # logged[p] =>
                  (logged'[p] = logs'[p] /\ DOMAIN logs[p] \subseteq DOMAIN logged'[p])]_vars

C10_Witness ==
    /\ pc[0] = "backward" /\ Has(calls[0], "log")
    /\ {"stat_first", "stat_later", "reward"} \subseteq DOMAIN logged[0]

====
